---- MODULE Spec2Model ----
(***************************************************************************)
(* Model of the serverless dependency-layer packager (src/lib/index.ts):   *)
(* the command runner and its stderr classifier (runProcess), the operator *)
(* prompt (requestUserConfirmation), the Docker environment setup          *)
(* (checkDocker, ensureImage, setupContainer), the per-target build        *)
(* (makePackage, installRequirements) and cleanup (clean).                 *)
(*                                                                         *)
(* Text is modelled as a sequence of one-character strings, so that        *)
(* toLowerCase, includes, trim and split are computed as the code does.    *)
(***************************************************************************)
EXTENDS Integers, Sequences, FiniteSets, TLC

VARIABLES
    gate,       \* one call of requestUserConfirmation: its input and result
    call,       \* one call of runProcess: its inputs and result
    cfg,        \* this.pluginConfig plus the target list (sls.service.layers)
    engine,     \* the Docker engine: its local images and its containers
    pc,         \* position of the running hook
    target,     \* index of the target makePackage is building (0: none)
    req,        \* index of the next requirements file of that target
    trace,      \* the external effects of setupDocker and clean so far, in order
    work,       \* the external effects of the makePackage call in progress, in order
    built,      \* the targets whose artifact has been written, in order
    last,       \* the step that was taken last and the result of its runProcess
    failure,    \* the error a hook's promise was rejected with, if any
    rm          \* state of the asynchronous fse.remove started by clean()

vars == <<gate, call, cfg, engine, pc, target, req, trace, work, built, last, failure, rm>>

----------------------------------------------------------------------------
(* Bounds *)

MaxRespLen == 3     \* longest operator input line explored
MaxFrags == 3       \* stderr texts are concatenations of at most this many fragments
MaxTargets == 2     \* most layers in sls.service.layers
MaxGlobalReqs == 1  \* most entries of pluginConfig.globalRequirements

----------------------------------------------------------------------------
(* Text helpers: String.prototype.{toLowerCase, includes, trim, split} *)

UpperChars == <<"A","B","C","D","E","F","G","H","I","J","K","L","M",
                "N","O","P","Q","R","S","T","U","V","W","X","Y","Z">>
LowerChars == <<"a","b","c","d","e","f","g","h","i","j","k","l","m",
                "n","o","p","q","r","s","t","u","v","w","x","y","z">>

LowerChar(c) ==
    IF \E i \in 1..Len(UpperChars) : UpperChars[i] = c
    THEN LowerChars[CHOOSE i \in 1..Len(UpperChars) : UpperChars[i] = c]
    ELSE c

toLowerCase(s) == [i \in 1..Len(s) |-> LowerChar(s[i])]

includes(s, sub) ==
    \E i \in 1..(Len(s) - Len(sub) + 1) : SubSeq(s, i, i + Len(sub) - 1) = sub

IsSpace(c) == c \in {" ", "\n", "\t"}

RECURSIVE trimStart(_)
trimStart(s) ==
    IF s = <<>> THEN <<>>
    ELSE IF IsSpace(Head(s)) THEN trimStart(Tail(s)) ELSE s

RECURSIVE trimEnd(_)
trimEnd(s) ==
    IF s = <<>> THEN <<>>
    ELSE IF IsSpace(s[Len(s)]) THEN trimEnd(SubSeq(s, 1, Len(s) - 1)) ELSE s

trim(s) == trimEnd(trimStart(s))

\* s.split("\n"): the segments between newlines (always at least one)
RECURSIVE splitLines(_, _)
splitLines(s, cur) ==
    IF s = <<>> THEN <<cur>>
    ELSE IF Head(s) = "\n" THEN <<cur>> \o splitLines(Tail(s), <<>>)
    ELSE splitLines(Tail(s), Append(cur, Head(s)))

split(s) == splitLines(s, <<>>)

RECURSIVE Flatten(_)
Flatten(ss) == IF ss = <<>> THEN <<>> ELSE Head(ss) \o Flatten(Tail(ss))

\* sequences over S of length at most n
SeqsUpTo(S, n) == UNION {[1..k -> S] : k \in 0..n}

----------------------------------------------------------------------------
(* String literals of the source *)

STR_y == <<"y">>
STR_ERROR == <<"E","R","R","O","R",":">>
STR_git_clone == <<"g","i","t"," ","c","l","o","n","e">>
STR_warning == <<"w","a","r","n","i","n","g">>
STR_error == <<"e","r","r","o","r">>
STR_docker == <<"d","o","c","k","e","r">>

----------------------------------------------------------------------------
(* requestUserConfirmation: effects are listed in the order they happen.   *)
(*   "question" readLineSync.question(prompt), blocking on the operator    *)
(*   "yesText" / "noText"  console.log of the respective text              *)
(*   "throw"    this.error("Aborting")                                     *)

requestUserConfirmation_CaseSensitive(response) ==
    IF includes(response, STR_y)
    THEN [raised |-> FALSE, effects |-> <<"question", "yesText">>]
    ELSE [raised |-> TRUE, effects |-> <<"question", "noText", "throw">>]

requestUserConfirmation(response) ==
    IF includes(toLowerCase(response), STR_y)
    THEN [raised |-> FALSE, effects |-> <<"question", "yesText">>]
    ELSE [raised |-> TRUE, effects |-> <<"question", "noText", "throw">>]

----------------------------------------------------------------------------
(* The stderr classifier inside runProcess (the if / else-if chain).       *)
(* The branch names follow the comments of the source.                     *)

classify_DockerCaseSensitive(errorText) ==
    LET countErrorNewLines == Len(split(errorText)) IN
    IF /\ ~includes(errorText, STR_ERROR)
       /\ countErrorNewLines < 2
       /\ includes(toLowerCase(errorText), STR_git_clone)
    THEN "falsePositive"
    ELSE IF /\ includes(toLowerCase(errorText), STR_warning)
            /\ ~includes(toLowerCase(errorText), STR_error)
    THEN "warning"
    ELSE IF includes(errorText, STR_docker)
    THEN "docker"
    ELSE "other"

classify_WarningCaseSensitive(errorText) ==
    LET countErrorNewLines == Len(split(errorText)) IN
    IF /\ ~includes(errorText, STR_ERROR)
       /\ countErrorNewLines < 2
       /\ includes(toLowerCase(errorText), STR_git_clone)
    THEN "falsePositive"
    ELSE IF /\ includes(errorText, STR_warning)
            /\ ~includes(toLowerCase(errorText), STR_error)
    THEN "warning"
    ELSE IF includes(toLowerCase(errorText), STR_docker)
    THEN "docker"
    ELSE "other"

classify_DockerFirst(errorText) ==
    LET countErrorNewLines == Len(split(errorText)) IN
    IF includes(toLowerCase(errorText), STR_docker)
    THEN "docker"
    ELSE IF /\ ~includes(errorText, STR_ERROR)
            /\ countErrorNewLines < 2
            /\ includes(toLowerCase(errorText), STR_git_clone)
    THEN "falsePositive"
    ELSE IF /\ includes(toLowerCase(errorText), STR_warning)
            /\ ~includes(toLowerCase(errorText), STR_error)
    THEN "warning"
    ELSE "other"

classify(errorText) ==
    LET countErrorNewLines == Len(split(errorText)) IN
    IF /\ ~includes(errorText, STR_ERROR)
       /\ countErrorNewLines < 2
       /\ includes(toLowerCase(errorText), STR_git_clone)
    THEN "falsePositive"
    ELSE IF /\ includes(toLowerCase(errorText), STR_warning)
            /\ ~includes(toLowerCase(errorText), STR_error)
    THEN "warning"
    ELSE IF includes(toLowerCase(errorText), STR_docker)
    THEN "docker"
    ELSE "other"

----------------------------------------------------------------------------
(* runProcess(cmd, args).  ret is the result of ChildProcess.spawnSync:    *)
(*   ret.error   the command could not be launched                         *)
(*   ret.status  the exit status (never read by the code)                  *)
(*   ret.stdout, ret.stderr  the captured text                             *)
(* response is the line the operator types if the prompt is reached.       *)
(* The result lists the effects in the order they happen:                  *)
(*   "log"      this.log(errorText)                                        *)
(*   "stdout"   console.log of the captured stdout                         *)
(*   "question", "yesText", "noText"  from requestUserConfirmation         *)
(*   "throw"    an Error is thrown                                         *)
(* branch names the path taken, logged the text passed to this.log, and    *)
(* out the returned value (meaningful when raised is FALSE).               *)

Result(raised, branch, effects, logged, out) ==
    [raised |-> raised, branch |-> branch, effects |-> effects,
     logged |-> logged, out |-> out]

runProcess_SilentOther(ret, response) ==
    IF ret.error
    THEN Result(TRUE, "spawnError", <<"throw">>, <<>>, <<>>)
    ELSE LET out == ret.stdout IN
         IF Len(ret.stderr) # 0
         THEN LET errorText == trim(ret.stderr)
                  branch == classify(errorText)
              IN  IF branch \in {"falsePositive", "warning", "other"}
                  THEN Result(FALSE, branch, <<"log">>, errorText, out)
                  ELSE Result(TRUE, branch, <<"log", "stdout", "throw">>, errorText, out)
         ELSE Result(FALSE, "none", <<>>, <<>>, out)

runProcess_StatusFatal(ret, response) ==
    IF ret.error \/ ret.status # 0
    THEN Result(TRUE, "spawnError", <<"throw">>, <<>>, <<>>)
    ELSE LET out == ret.stdout IN
         IF Len(ret.stderr) # 0
         THEN LET errorText == trim(ret.stderr)
                  branch == classify(errorText)
              IN  IF branch \in {"falsePositive", "warning"}
                  THEN Result(FALSE, branch, <<"log">>, errorText, out)
                  ELSE IF branch = "docker"
                  THEN Result(TRUE, branch, <<"log", "stdout", "throw">>, errorText, out)
                  ELSE LET answer == requestUserConfirmation(response) IN
                       Result(answer.raised, branch,
                              <<"log", "stdout">> \o answer.effects, errorText, out)
         ELSE Result(FALSE, "none", <<>>, <<>>, out)

runProcess_SpawnErrorAsked(ret, response) ==
    LET out == ret.stdout IN
    IF ret.error \/ Len(ret.stderr) # 0
    THEN LET errorText == trim(ret.stderr)
             branch == IF ret.error THEN "other" ELSE classify(errorText)
         IN  IF branch \in {"falsePositive", "warning"}
             THEN Result(FALSE, branch, <<"log">>, errorText, out)
             ELSE IF branch = "docker"
             THEN Result(TRUE, branch, <<"log", "stdout", "throw">>, errorText, out)
             ELSE LET answer == requestUserConfirmation(response) IN
                  Result(answer.raised, branch,
                         <<"log", "stdout">> \o answer.effects, errorText, out)
    ELSE Result(FALSE, "none", <<>>, <<>>, out)

runProcess_ContinueReturnsNothing(ret, response) ==
    IF ret.error
    THEN Result(TRUE, "spawnError", <<"throw">>, <<>>, <<>>)
    ELSE LET out == ret.stdout IN
         IF Len(ret.stderr) # 0
         THEN LET errorText == trim(ret.stderr)
                  branch == classify(errorText)
              IN  IF branch \in {"falsePositive", "warning"}
                  THEN Result(FALSE, branch, <<"log">>, errorText, out)
                  ELSE IF branch = "docker"
                  THEN Result(TRUE, branch, <<"log", "stdout", "throw">>, errorText, out)
                  ELSE LET answer == requestUserConfirmation(response) IN
                       Result(answer.raised, branch,
                              <<"log", "stdout">> \o answer.effects, errorText, <<>>)
         ELSE Result(FALSE, "none", <<>>, <<>>, out)

runProcess_LogWhenAsked(ret, response) ==
    IF ret.error
    THEN Result(TRUE, "spawnError", <<"throw">>, <<>>, <<>>)
    ELSE LET out == ret.stdout IN
         IF Len(ret.stderr) # 0
         THEN LET errorText == trim(ret.stderr)
                  branch == classify(errorText)
              IN  IF branch \in {"falsePositive", "warning"}
                  THEN Result(FALSE, branch, <<>>, <<>>, out)
                  ELSE IF branch = "docker"
                  THEN Result(TRUE, branch, <<"stdout", "throw">>, <<>>, out)
                  ELSE LET answer == requestUserConfirmation(response) IN
                       Result(answer.raised, branch,
                              <<"stdout", "log">> \o answer.effects, errorText, out)
         ELSE Result(FALSE, "none", <<>>, <<>>, out)

runProcess_NonZeroAsked(ret, response) ==
    IF ret.error
    THEN Result(TRUE, "spawnError", <<"throw">>, <<>>, <<>>)
    ELSE LET out == ret.stdout IN
         IF Len(ret.stderr) # 0 \/ ret.status # 0
         THEN LET errorText == trim(ret.stderr)
                  branch == classify(errorText)
              IN  IF branch \in {"falsePositive", "warning"}
                  THEN Result(FALSE, branch, <<"log">>, errorText, out)
                  ELSE IF branch = "docker"
                  THEN Result(TRUE, branch, <<"log", "stdout", "throw">>, errorText, out)
                  ELSE LET answer == requestUserConfirmation(response) IN
                       Result(answer.raised, branch,
                              <<"log", "stdout">> \o answer.effects, errorText, out)
         ELSE Result(FALSE, "none", <<>>, <<>>, out)

runProcess(ret, response) ==
    IF ret.error
    THEN Result(TRUE, "spawnError", <<"throw">>, <<>>, <<>>)
    ELSE LET out == ret.stdout IN
         IF Len(ret.stderr) # 0
         THEN LET errorText == trim(ret.stderr)
                  branch == classify(errorText)
              IN  IF branch \in {"falsePositive", "warning"}
                  THEN Result(FALSE, branch, <<"log">>, errorText, out)
                  ELSE IF branch = "docker"
                  THEN Result(TRUE, branch, <<"log", "stdout", "throw">>, errorText, out)
                  ELSE LET answer == requestUserConfirmation(response) IN
                       Result(answer.raised, branch,
                              <<"log", "stdout">> \o answer.effects, errorText, out)
         ELSE Result(FALSE, "none", <<>>, <<>>, out)

\* number of times effect e occurs in a result
Count(effects, e) == Cardinality({i \in 1..Len(effects) : effects[i] = e})

----------------------------------------------------------------------------
(* The environment of a run: configuration, Docker engine, file system.    *)

\* pluginConfig.containerName and the names containers on the engine can have
NAME_dl == <<"d","l">>
NAME_dl2 == <<"d","l","2">>
ContainerNames == {NAME_dl, NAME_dl2}

\* image references: pluginConfig.dockerImage with and without a tag, and the
\* "repository:tag" names the engine stores
IMG_py == <<"p","y">>
IMG_py_3 == <<"p","y",":","3">>
IMG_py_latest == <<"p","y",":","l","a","t","e","s","t">>
ImageRefs == {IMG_py_3, IMG_py}
LocalImages == {IMG_py_3, IMG_py_latest}

HasTag(ref) == \E i \in 1..Len(ref) : ref[i] = ":"

\* the image an image reference denotes (docker adds the default tag)
Normalize(ref) == IF HasTag(ref) THEN ref ELSE ref \o <<":","l","a","t","e","s","t">>

Repository(image) ==
    SubSeq(image, 1, (CHOOSE i \in 1..Len(image) : image[i] = ":") - 1)

\* a set of texts as a sequence, in some fixed order
RECURSIVE SetToSeq(_)
SetToSeq(S) ==
    IF S = {} THEN <<>>
    ELSE LET x == CHOOSE y \in S : \A z \in S : Len(y) <= Len(z)
         IN  <<x>> \o SetToSeq(S \ {x})

\* one text per line, each line terminated by a newline
Lines(texts) == Flatten([i \in 1..Len(texts) |-> texts[i] \o <<"\n">>])

\* stdout of `docker ps -a --filter name=<name> --format {{.Names}}`:
\* the engine's name filter selects every container whose name contains <name>
PsOutput(containers, name) ==
    Lines(SetToSeq({c \in containers : includes(c, name)}))

\* stdout of `docker images --format {{.Repository}}:{{.Tag}} --filter reference=<ref>`:
\* a reference without a tag selects every tag of the repository
ImagesOutput(images, ref) ==
    Lines(SetToSeq({im \in images :
                      IF HasTag(ref) THEN im = ref ELSE Repository(im) = ref}))

\* stderr texts the commands of a run may write: nothing, an ignored warning,
\* a Docker error, and a text no rule matches
ERR_warning == <<"W","a","r","n","i","n","g">>
ERR_docker == <<"D","o","c","k","e","r"," ","x">>
ERR_error == <<"e","r","r","o","r">>
PipeStderr == {<<>>, ERR_warning, ERR_docker, ERR_error}

\* lines the operator may type
PipeResponses == {<<"y">>, <<"n">>}

\* the results spawnSync can give for a docker command: stdoutOk is what the
\* engine answers when the command succeeds, mustFail tells that it cannot
\* succeed, quiet that it may fail without writing to stderr
Rets(stdoutOk, mustFail, quiet) ==
    {[error |-> TRUE, status |-> 1, stdout |-> <<>>, stderr |-> <<>>]}
    \cup
    {[error |-> FALSE, status |-> st,
      stdout |-> IF st = 0 THEN stdoutOk ELSE <<>>, stderr |-> e] :
        <<st, e>> \in {x \in {0, 1} \X PipeStderr :
                         /\ mustFail => x[1] = 1
                         /\ (x[1] = 1 /\ ~quiet) => x[2] # <<>>}}

\* the operator types a line only when the prompt is reached
Asked(ret) == Count(runProcess(ret, <<>>).effects, "question") > 0
ResponsesFor(ret) == IF Asked(ret) THEN PipeResponses ELSE {<<>>}

NoRet == [error |-> FALSE, status |-> 0, stdout |-> <<>>, stderr |-> <<>>]
NoResult == Result(FALSE, "notRun", <<>>, <<>>, <<>>)
NoFailure == [raised |-> FALSE, hook |-> "", step |-> "", tgt |-> 0]

\* an external effect: op on arg, for target tgt (0: none) and requirements file k (0: none)
Ev(op, arg, tgt, k) == [op |-> op, arg |-> arg, tgt |-> tgt, k |-> k]
Last(step, tgt, ran, ret, response, res, file) ==
    [step |-> step, tgt |-> tgt, ran |-> ran, ret |-> ret,
     response |-> response, res |-> res, file |-> file]

GateIdle == [pc |-> "off", response |-> <<>>, result |-> NoResult]
CallIdle == [pc |-> "off", ret |-> NoRet, response |-> <<>>, result |-> NoResult]

----------------------------------------------------------------------------
(* The "before:package:createDeploymentArtifacts" hook:                    *)
(*   autoconfigArtifacts, ensureDir, setupDocker, selectAll, map makePackage *)
(* One action per external command; the code around a command belongs to   *)
(* the action of that command.                                             *)

Fail(hook, step, tgt) == [raised |-> TRUE, hook |-> hook, step |-> step, tgt |-> tgt]

\* String.prototype.replace(/^\s+|\s+$/g, "")
strip(out) == trim(out)

\* Bluebird .map(this.makePackage) over the array selectAll returned: the
\* mapper runs for one element after the other, and the first throw rejects
\* the promise and ends the iteration.  MapNext gives the position after the
\* mapper has run for target t of n.
MapNext_ContinueAfterThrow(raised, t, n) ==
    IF t < n THEN [pc |-> "makePackage", target |-> t + 1]
    ELSE [pc |-> IF raised THEN "failed" ELSE "done", target |-> t]

MapNext_Reversed(raised, t, n) ==
    IF raised THEN [pc |-> "failed", target |-> t]
    ELSE IF t = 0 /\ n > 0 THEN [pc |-> "makePackage", target |-> n]
    ELSE IF t > 1 THEN [pc |-> "makePackage", target |-> t - 1]
    ELSE [pc |-> "done", target |-> t]

MapNext(raised, t, n) ==
    IF raised THEN [pc |-> "failed", target |-> t]
    ELSE IF t < n THEN [pc |-> "makePackage", target |-> t + 1]
    ELSE [pc |-> "done", target |-> t]

\* setupDocker: checkDocker, then ensureImage, then setupContainer
SetupNext_NoImageCheck(step) == "setupContainer"

SetupNext(step) ==
    IF step = "checkDocker" THEN "ensureImage" ELSE "setupContainer"

\* checkDocker, preceded by the first steps of the hook
CheckDocker ==
    /\ pc = "idle"
    /\ \E ret \in Rets(<<"2","0">>, FALSE, FALSE) : \E response \in ResponsesFor(ret) :
         LET res == runProcess(ret, response) IN
         /\ trace' = trace \o <<Ev("autoconfigArtifacts", "", 0, 0),
                                Ev("ensureDir", "buildDir", 0, 0),
                                Ev("cmd", "version", 0, 0)>>
         /\ last' = Last("checkDocker", 0, TRUE, ret, response, res, "")
         /\ IF res.raised
            THEN pc' = "failed" /\ failure' = Fail("package", "checkDocker", 0)
            ELSE pc' = SetupNext("checkDocker") /\ UNCHANGED failure
    /\ UNCHANGED <<gate, call, cfg, engine, target, req, work, built, rm>>

\* ensureImage: the query for the local image
EnsureImage ==
    /\ pc = "ensureImage"
    /\ \E ret \in Rets(ImagesOutput(engine.images, cfg.dockerImage), FALSE, FALSE) :
       \E response \in ResponsesFor(ret) :
         LET res == runProcess(ret, response) IN
         /\ trace' = Append(trace, Ev("cmd", "images", 0, 0))
         /\ last' = Last("ensureImage", 0, TRUE, ret, response, res, "")
         /\ IF res.raised
            THEN pc' = "failed" /\ failure' = Fail("package", "ensureImage", 0)
            ELSE /\ pc' = IF strip(res.out) # cfg.dockerImage THEN "pull"
                          ELSE SetupNext("ensureImage")
                 /\ UNCHANGED failure
    /\ UNCHANGED <<gate, call, cfg, engine, target, req, work, built, rm>>

\* ensureImage: the pull of an image that was not found
PullImage ==
    /\ pc = "pull"
    /\ \E ret \in Rets(<<>>, FALSE, FALSE) : \E response \in ResponsesFor(ret) :
         LET res == runProcess(ret, response) IN
         /\ trace' = Append(trace, Ev("cmd", "pull", 0, 0))
         /\ last' = Last("pull", 0, TRUE, ret, response, res, "")
         /\ engine' = IF ~ret.error /\ ret.status = 0
                      THEN [engine EXCEPT !.images = @ \cup {Normalize(cfg.dockerImage)}]
                      ELSE engine
         /\ IF res.raised
            THEN pc' = "failed" /\ failure' = Fail("package", "pull", 0)
            ELSE pc' = SetupNext("ensureImage") /\ UNCHANGED failure
    /\ UNCHANGED <<gate, call, cfg, target, req, work, built, rm>>

\* setupContainer: the query for an existing container
SetupContainerPs ==
    /\ pc = "setupContainer"
    /\ \E ret \in Rets(PsOutput(engine.containers, cfg.containerName), FALSE, FALSE) :
       \E response \in ResponsesFor(ret) :
         LET res == runProcess(ret, response) IN
         /\ trace' = Append(trace, Ev("cmd", "ps", 0, 0))
         /\ last' = Last("ps", 0, TRUE, ret, response, res, "")
         /\ IF res.raised
            THEN pc' = "failed" /\ failure' = Fail("package", "ps", 0)
            ELSE /\ pc' = IF strip(res.out) = cfg.containerName THEN "kill" ELSE "run"
                 /\ UNCHANGED failure
    /\ UNCHANGED <<gate, call, cfg, engine, target, req, work, built, rm>>

\* setupContainer: the kill of the container that was found
SetupContainerKill ==
    /\ pc = "kill"
    /\ \E ret \in Rets(cfg.containerName \o <<"\n">>,
                       cfg.containerName \notin engine.containers, FALSE) :
       \E response \in ResponsesFor(ret) :
         LET res == runProcess(ret, response) IN
         /\ trace' = Append(trace, Ev("cmd", "kill", 0, 0))
         /\ last' = Last("kill", 0, TRUE, ret, response, res, "")
         /\ engine' = IF ~ret.error /\ ret.status = 0
                      THEN [engine EXCEPT !.containers = @ \ {cfg.containerName}]
                      ELSE engine
         /\ IF res.raised
            THEN pc' = "failed" /\ failure' = Fail("package", "kill", 0)
            ELSE pc' = "run" /\ UNCHANGED failure
    /\ UNCHANGED <<gate, call, cfg, target, req, work, built, rm>>

\* setupContainer: the start of the new container; then selectAll and the
\* start of the map over the targets
SetupContainerRun ==
    /\ pc = "run"
    /\ \E ret \in Rets(<<"i","d","\n">>,
                       cfg.containerName \in engine.containers, FALSE) :
       \E response \in ResponsesFor(ret) :
         LET res == runProcess(ret, response) IN
         /\ trace' = Append(trace, Ev("cmd", "run", 0, 0))
         /\ last' = Last("run", 0, TRUE, ret, response, res, "")
         /\ engine' = IF ~ret.error /\ ret.status = 0
                      THEN [engine EXCEPT !.containers = @ \cup {cfg.containerName}]
                      ELSE engine
         /\ IF res.raised
            THEN /\ pc' = "failed" /\ failure' = Fail("package", "run", 0)
                 /\ UNCHANGED target
            ELSE /\ pc' = MapNext(FALSE, 0, cfg.targets).pc
                 /\ target' = MapNext(FALSE, 0, cfg.targets).target
                 /\ UNCHANGED failure
    /\ UNCHANGED <<gate, call, cfg, req, work, built, rm>>

----------------------------------------------------------------------------
(* makePackage(target), run by the map for each target in turn.            *)

\* what the file system answers for a path: absent, a zero-length file, or a
\* file with content
FileStates == {"missing", "empty", "nonempty"}

\* selectAll passes path, compatibleRuntimes, compatibleArchitectures and
\* name: target.includes is undefined, so only pluginConfig.globalIncludes
\* (one path by default) are candidates for copying
NumIncludes == 1

\* requirementsFiles: the target's own file, then pluginConfig.globalRequirements
NumReqs == 1 + cfg.globalRequirements

\* what installRequirements does with a requirements file: return at once when
\* the path does not exist, warn and return when its size is 0, otherwise run
\* pip through docker exec
InstallPlan_EmptyRuns(file) ==
    IF file = "missing" THEN "return" ELSE "run"

InstallPlan(file) ==
    IF file = "missing" THEN "return"
    ELSE IF file = "empty" THEN "warn"
    ELSE "run"

\* the position after requirements file k of n: the next file, and the
\* compression after the last one
AfterInstall_SkipsGlobals(k, n) == [pc |-> "zip", req |-> k]

AfterInstall(k, n) ==
    IF k < n THEN [pc |-> "install", req |-> k + 1] ELSE [pc |-> "zip", req |-> k]

\* the error that leaves makePackage rejects the map
Rejected(step) == IF failure.raised THEN failure ELSE Fail("package", step, target)

\* makePackage up to the loop over the requirements files: ensureDirSync and
\* the copy of every include that exists; either may throw
MakePackage ==
    /\ pc = "makePackage"
    /\ \E exists \in [1..NumIncludes -> BOOLEAN] :
       \E fs \in {"ok", "ensureDirThrows"} \cup
                 (IF \E i \in 1..NumIncludes : exists[i] THEN {"copyThrows"} ELSE {}) :
         LET copies == SelectSeq([i \in 1..NumIncludes |->
                                    Ev(IF exists[i] THEN "copySync" ELSE "skip",
                                       "include", target, i)],
                                 LAMBDA e : e.op = "copySync")
         IN  /\ last' = Last("makePackage", target, FALSE, NoRet, <<>>, NoResult, exists)
             /\ IF fs = "ok"
                THEN /\ work' = <<Ev("ensureDirSync", "buildPath", target, 0)>> \o copies
                     /\ pc' = "install"
                     /\ req' = 1
                     /\ UNCHANGED <<target, failure>>
                ELSE /\ work' = IF fs = "ensureDirThrows" THEN <<>>
                                ELSE <<Ev("ensureDirSync", "buildPath", target, 0)>>
                     /\ pc' = MapNext(TRUE, target, cfg.targets).pc
                     /\ target' = MapNext(TRUE, target, cfg.targets).target
                     /\ failure' = Rejected("makePackage")
                     /\ UNCHANGED req
    /\ UNCHANGED <<gate, call, cfg, engine, trace, built, rm>>

\* one turn of the loop over requirementsFiles: existsSync(req) and, if the
\* file exists, installRequirements(buildPath, req)
InstallRequirements ==
    /\ pc = "install"
    /\ \E file \in FileStates :
         \/ /\ InstallPlan(file) = "return"
            /\ work' = work
            /\ last' = Last("install", target, FALSE, NoRet, <<>>, NoResult, file)
            /\ pc' = AfterInstall(req, NumReqs).pc
            /\ req' = AfterInstall(req, NumReqs).req
            /\ UNCHANGED <<target, failure>>
         \/ /\ InstallPlan(file) = "warn"
            /\ work' = Append(work, Ev("log", "emptyRequirements", target, req))
            /\ last' = Last("install", target, FALSE, NoRet, <<>>, NoResult, file)
            /\ pc' = AfterInstall(req, NumReqs).pc
            /\ req' = AfterInstall(req, NumReqs).req
            /\ UNCHANGED <<target, failure>>
         \/ /\ InstallPlan(file) = "run"
            /\ \E ret \in Rets(<<"o","k","\n">>,
                               cfg.containerName \notin engine.containers, TRUE) :
               \E response \in ResponsesFor(ret) :
                 LET res == runProcess(ret, response) IN
                 /\ work' = Append(work, Ev("cmd", "exec", target, req))
                 /\ last' = Last("install", target, TRUE, ret, response, res, file)
                 /\ IF res.raised
                    THEN /\ pc' = MapNext(TRUE, target, cfg.targets).pc
                         /\ target' = MapNext(TRUE, target, cfg.targets).target
                         /\ failure' = Rejected("install")
                         /\ UNCHANGED req
                    ELSE /\ pc' = AfterInstall(req, NumReqs).pc
                         /\ req' = AfterInstall(req, NumReqs).req
                         /\ UNCHANGED <<target, failure>>
    /\ UNCHANGED <<gate, call, cfg, engine, trace, built, rm>>

\* the end of makePackage: zipper.sync.zip(buildPath).compress().save(...),
\* which may throw; after it the map goes on
Zip ==
    /\ pc = "zip"
    /\ last' = Last("zip", target, FALSE, NoRet, <<>>, NoResult, "")
    /\ \E ok \in BOOLEAN :
         IF ok
         THEN /\ work' = Append(work, Ev("zip", "artifact", target, 0))
              /\ built' = Append(built, target)
              /\ pc' = MapNext(FALSE, target, cfg.targets).pc
              /\ target' = MapNext(FALSE, target, cfg.targets).target
              /\ UNCHANGED failure
         ELSE /\ pc' = MapNext(TRUE, target, cfg.targets).pc
              /\ target' = MapNext(TRUE, target, cfg.targets).target
              /\ failure' = Rejected("zip")
              /\ UNCHANGED <<work, built>>
    /\ UNCHANGED <<gate, call, cfg, engine, req, trace, rm>>

----------------------------------------------------------------------------
(* The "after:deploy:deploy" hook: clean().  It runs when a deployment has *)
(* succeeded, with or without a packaging run before it in this process.   *)

\* the values pluginConfig.cleanup can have: getPluginConfig sets no default,
\* so an option that is not configured stays undefined ("unset")
CleanupValues == {"true", "false", "unset"}

\* !this.pluginConfig.cleanup is false exactly for true
Truthy_UnsetIsTrue(v) == v # "false"

Truthy(v) == v = "true"

\* docker stop <containerName> -t 0
StopCmd_DefaultTimeout(name) ==
    [op |-> "cmd", arg |-> "stop", tgt |-> 0, k |-> 0, name |-> name, timeout |-> 10]

StopCmd(name) ==
    [op |-> "cmd", arg |-> "stop", tgt |-> 0, k |-> 0, name |-> name, timeout |-> 0]

Clean ==
    /\ pc \in {"idle", "done"}
    /\ IF ~Truthy(cfg.cleanup)
       THEN /\ trace' = Append(trace, Ev("log", "retained", 0, 0))
            /\ last' = Last("clean", 0, FALSE, NoRet, <<>>, NoResult, "")
            /\ pc' = "cleaned"
            /\ UNCHANGED <<engine, failure, rm>>
       ELSE \E ret \in Rets(cfg.containerName \o <<"\n">>,
                            cfg.containerName \notin engine.containers, FALSE) :
            \E response \in ResponsesFor(ret) :
              LET res == runProcess(ret, response) IN
              /\ trace' = trace \o <<Ev("remove", "buildDir", 0, 0),
                                     StopCmd(cfg.containerName)>>
              /\ rm' = "pending"
              /\ last' = Last("clean", 0, TRUE, ret, response, res, "")
              /\ engine' = IF ~ret.error /\ ret.status = 0
                           THEN [engine EXCEPT !.containers = @ \ {cfg.containerName}]
                           ELSE engine
              /\ IF res.raised
                 THEN pc' = "failed" /\ failure' = Fail("clean", "stop", 0)
                 ELSE pc' = "cleaned" /\ UNCHANGED failure
    /\ UNCHANGED <<gate, call, cfg, target, req, work, built>>

\* the promise of fse.remove settles some time after clean() started it; a
\* rejection is logged by the .catch handler
RemoveSettles ==
    /\ rm = "pending"
    /\ \E ok \in BOOLEAN :
         /\ rm' = IF ok THEN "removed" ELSE "errorLogged"
         /\ trace' = Append(trace, IF ok THEN Ev("removed", "buildDir", 0, 0)
                                   ELSE Ev("log", "removeError", 0, 0))
    /\ UNCHANGED <<gate, call, cfg, engine, pc, target, req, work, built, last, failure>>

----------------------------------------------------------------------------
(* The run of the plugin *)

Configs ==
    [cleanup : CleanupValues,
     containerName : {NAME_dl},
     dockerImage : ImageRefs,
     targets : 0..MaxTargets,
     globalRequirements : {MaxGlobalReqs}]

Engines ==
    [images : SUBSET LocalImages, containers : SUBSET ContainerNames]

Init ==
    /\ gate = GateIdle
    /\ call = CallIdle
    /\ cfg \in Configs
    /\ engine \in Engines
    /\ pc = "idle"
    /\ target = 0
    /\ req = 0
    /\ trace = <<>>
    /\ work = <<>>
    /\ built = <<>>
    /\ last = Last("", 0, FALSE, NoRet, <<>>, NoResult, "")
    /\ failure = NoFailure
    /\ rm = "none"

Next ==
    \/ CheckDocker
    \/ EnsureImage
    \/ PullImage
    \/ SetupContainerPs
    \/ SetupContainerKill
    \/ SetupContainerRun
    \/ MakePackage
    \/ InstallRequirements
    \/ Zip
    \/ Clean
    \/ RemoveSettles

Spec == Init /\ [][Next]_vars

----------------------------------------------------------------------------
(* requestUserConfirmation alone, on every short input line *)

RespChars == {"y", "Y", "n", "o", "e", "s"}
Responses == SeqsUpTo(RespChars, MaxRespLen)

PipelineIdle ==
    /\ cfg = [cleanup |-> "false", containerName |-> NAME_dl, dockerImage |-> IMG_py_3,
              targets |-> 0, globalRequirements |-> 0]
    /\ engine = [images |-> {}, containers |-> {}]
    /\ pc = "off"
    /\ target = 0
    /\ req = 0
    /\ trace = <<>>
    /\ work = <<>>
    /\ built = <<>>
    /\ last = Last("", 0, FALSE, NoRet, <<>>, NoResult, "")
    /\ failure = NoFailure
    /\ rm = "none"

GateInit ==
    /\ gate \in {[pc |-> "ask", response |-> r, result |-> NoResult] : r \in Responses}
    /\ call = CallIdle
    /\ PipelineIdle

Confirm ==
    /\ gate.pc = "ask"
    /\ gate' = [gate EXCEPT !.pc = "answered",
                            !.result = requestUserConfirmation(gate.response)]
    /\ UNCHANGED <<call, cfg, engine, pc, target, req, trace, work, built, last,
                   failure, rm>>

GateNext == Confirm

SpecGate == GateInit /\ [][GateNext]_vars

----------------------------------------------------------------------------
(* runProcess alone, on stderr texts built from the words the classifier   *)
(* looks for                                                               *)

Fragments ==
    {STR_git_clone,
     <<"G","i","t"," ","C","l","o","n","e">>,
     STR_ERROR,
     STR_error,
     STR_warning,
     <<"W","a","r","n","i","n","g">>,
     STR_docker,
     <<"D","o","c","k","e","r">>,
     <<"\n">>,
     <<" ">>,
     <<"x">>}

StderrTexts == {Flatten(fs) : fs \in SeqsUpTo(Fragments, MaxFrags)}

RunRets ==
    {[error |-> TRUE, status |-> 1, stdout |-> <<>>, stderr |-> <<>>]}
    \cup [error : {FALSE}, status : {0, 1}, stdout : {<<>>, <<"o","u","t">>},
          stderr : StderrTexts]

RunResponses == {<<"y">>, <<"n">>, <<>>}

RunInit ==
    /\ gate = GateIdle
    /\ call \in {[pc |-> "call", ret |-> r, response |-> a, result |-> NoResult] :
                   r \in RunRets, a \in RunResponses}
    /\ Asked(call.ret) \/ call.response = <<>>
    /\ PipelineIdle

RunProcessCall ==
    /\ call.pc = "call"
    /\ call' = [call EXCEPT !.pc = "done",
                            !.result = runProcess(call.ret, call.response)]
    /\ UNCHANGED <<gate, cfg, engine, pc, target, req, trace, work, built, last,
                   failure, rm>>

RunNext == RunProcessCall

SpecRun == RunInit /\ [][RunNext]_vars

----------------------------------------------------------------------------
(* The rules of the classifier as the specification states them, on the    *)
(* captured stderr.  Lines are counted on the text without its surrounding *)
(* whitespace, so a terminating newline does not start a second line.      *)

Occurs(s, c) == Cardinality({i \in 1..Len(s) : s[i] = c})
ContainsAnyCase(s, word) == includes(toLowerCase(s), word)

RuleFalsePositive(stderr) ==
    /\ Occurs(trim(stderr), "\n") < 1
    /\ ~includes(stderr, STR_ERROR)
    /\ ContainsAnyCase(stderr, STR_git_clone)

RuleWarning(stderr) ==
    /\ ContainsAnyCase(stderr, STR_warning)
    /\ ~ContainsAnyCase(stderr, STR_error)

RuleDocker(stderr) == ContainsAnyCase(stderr, STR_docker)

IsFatal(ret) ==
    /\ ~ret.error
    /\ RuleDocker(ret.stderr)
    /\ ~RuleFalsePositive(ret.stderr)
    /\ ~RuleWarning(ret.stderr)

IsAmbiguous(ret) ==
    /\ ~ret.error
    /\ ret.stderr # <<>>
    /\ ~RuleFalsePositive(ret.stderr)
    /\ ~RuleWarning(ret.stderr)
    /\ ~RuleDocker(ret.stderr)

HasY(response) == \E i \in 1..Len(response) : response[i] \in {"y", "Y"}

\* position of the first occurrence of effect e (0: none)
First(effects, e) ==
    IF \E i \in 1..Len(effects) : effects[i] = e
    THEN CHOOSE i \in 1..Len(effects) :
           effects[i] = e /\ \A j \in 1..(i - 1) : effects[j] # e
    ELSE 0

----------------------------------------------------------------------------
(* C1: requestUserConfirmation returns normally exactly when the input     *)
(* line contains a "y" or a "Y" at some position; on every other line,     *)
(* the empty one included, it raises.                                      *)
C1_ContinueIffY ==
    gate.pc = "answered" =>
        /\ ~gate.result.raised <=> HasY(gate.response)
        /\ gate.result.raised <=> Count(gate.result.effects, "throw") = 1

C1_Witness ==
    /\ gate.pc = "answered"
    /\ gate.response = <<"Y", "e", "s">>
    /\ ~gate.result.raised

(* C3: a command that launched and whose stderr contains "docker" in any   *)
(* case, and matches neither the false-positive nor the warning rule, ends *)
(* Fatal: stdout is printed, an error is thrown, the operator is not asked. *)
C3_DockerIsFatal ==
    (call.pc = "done" /\ IsFatal(call.ret)) =>
        /\ call.result.raised
        /\ Count(call.result.effects, "stdout") = 1
        /\ Count(call.result.effects, "question") = 0
        /\ call.result.effects[Len(call.result.effects)] = "throw"

C3_Witness ==
    /\ call.pc = "done"
    /\ call.ret.stderr = <<"D","o","c","k","e","r">> \o STR_ERROR
    /\ call.result.raised
    /\ call.result.branch = "docker"

(* C4: a command that launched and whose stderr is not empty and matches   *)
(* none of the three rules is Ambiguous: stdout is printed and the         *)
(* operator is asked exactly once before runProcess returns or raises.     *)
C4_AmbiguousAsksOnce ==
    (call.pc = "done" /\ IsAmbiguous(call.ret)) =>
        /\ Count(call.result.effects, "question") = 1
        /\ Count(call.result.effects, "stdout") = 1
        /\ First(call.result.effects, "stdout") < First(call.result.effects, "question")
        /\ call.result.raised <=> ~HasY(call.response)
        /\ ~call.result.raised => call.result.out = call.ret.stdout

C4_Witness ==
    /\ call.pc = "done"
    /\ call.ret.stderr = STR_error \o <<"\n">>
    /\ Count(call.result.effects, "question") = 1
    /\ ~call.result.raised

(* C5: a command whose stderr contains "warning" and does not contain      *)
(* "error", both in any case, returns its stdout: no prompt, no error.     *)
C5_WarningIgnored ==
    (call.pc = "done" /\ ~call.ret.error /\ RuleWarning(call.ret.stderr)) =>
        /\ ~call.result.raised
        /\ call.result.out = call.ret.stdout
        /\ Count(call.result.effects, "question") = 0
        /\ Count(call.result.effects, "throw") = 0

C5_Witness ==
    /\ call.pc = "done"
    /\ call.ret.stderr = <<"W","a","r","n","i","n","g">> \o <<"\n">> \o STR_docker
    /\ call.result.branch = "warning"
    /\ ~call.result.raised

(* C6: a command whose stderr has fewer than 2 lines, contains "git clone" *)
(* in any case and does not contain "ERROR:" returns its stdout with no    *)
(* prompt and no error, also when the text contains "docker" or "error".   *)
C6_FalsePositiveFirst ==
    (call.pc = "done" /\ ~call.ret.error /\ RuleFalsePositive(call.ret.stderr)) =>
        /\ ~call.result.raised
        /\ call.result.out = call.ret.stdout
        /\ Count(call.result.effects, "question") = 0
        /\ Count(call.result.effects, "throw") = 0

C6_Witness ==
    /\ call.pc = "done"
    /\ call.ret.stderr = <<"G","i","t"," ","C","l","o","n","e">> \o STR_docker \o STR_error
    /\ call.result.branch = "falsePositive"
    /\ ~call.result.raised

----------------------------------------------------------------------------
(* Claims about the hooks *)

Questions(l) == Count(l.res.effects, "question")

\* the command of the last step could not be launched or exited with an error
CommandFailed(l) == l.ran /\ (l.ret.error \/ l.ret.status # 0)

(* C2: once an error is raised while target i is being built (the operator *)
(* aborts, or a Fatal classification), the hook has failed and no step of  *)
(* a later target is performed: no effect and no artifact belongs to a     *)
(* target after i.                                                         *)
C2_AbortHaltsLaterTargets ==
    (failure.raised /\ failure.step = "install") =>
        /\ pc = "failed"
        /\ target = failure.tgt
        /\ \A i \in 1..Len(work) : work[i].tgt <= failure.tgt
        /\ \A i \in 1..Len(built) : built[i] < failure.tgt

C2_Witness ==
    /\ failure.raised
    /\ failure.step = "install"
    /\ failure.tgt = 1
    /\ cfg.targets >= 2
    /\ last.res.branch = "other"
    /\ ~HasY(last.response)

C8_CleanNeverRaisesNorAsks ==
    last.step = "clean" =>
        /\ pc = "cleaned"
        /\ ~failure.raised
        /\ Questions(last) = 0

(* C9: when setupContainer finds the engine with a container of the        *)
(* configured name, whatever other containers there are, its next command  *)
(* is the kill of that container (the start of the new one comes after).   *)
C9_ExistingContainerKilledFirst ==
    (/\ last.step = "ps"
     /\ ~last.ret.error /\ last.ret.status = 0
     /\ ~last.res.raised
     /\ cfg.containerName \in engine.containers) => pc = "kill"

(* C10: after the query of ensureImage has answered, a pull is the next    *)
(* command exactly when the image the configured reference denotes is not  *)
(* among the local images.                                                 *)
C10_PullIffImageAbsent ==
    (/\ last.step = "ensureImage"
     /\ ~last.ret.error /\ last.ret.status = 0
     /\ ~last.res.raised) =>
        (pc = "pull" <=> Normalize(cfg.dockerImage) \notin engine.images)

----------------------------------------------------------------------------
(* Claims about clean() *)

IsStop(e) == e.op = "cmd" /\ e.arg = "stop"

(* C11: with the cleanup option false or unset, clean() only logs that     *)
(* everything is retained and returns: no error, no removal of the build   *)
(* directory started, no stop command issued.                              *)
C11_DisabledCleanupIsNoOp ==
    (last.step = "clean" /\ cfg.cleanup \in {"false", "unset"}) =>
        /\ pc = "cleaned"
        /\ ~failure.raised
        /\ ~last.ran
        /\ rm = "none"
        /\ trace[Len(trace)] = Ev("log", "retained", 0, 0)
        /\ \A i \in 1..Len(trace) : trace[i].op # "remove" /\ ~IsStop(trace[i])

C11_Witness ==
    /\ last.step = "clean"
    /\ cfg.cleanup = "unset"
    /\ pc = "cleaned"
    /\ built # <<>>

(* C12 as stated: with the cleanup option enabled, once clean() has run    *)
(* the removal of the build directory has taken place (it has succeeded or *)
(* failed) and the stop command has been issued.                           *)
C12_RemovalDoneWhenCleanHasRun ==
    (last.step = "clean" /\ cfg.cleanup = "true") =>
        /\ rm \in {"removed", "errorLogged"}
        /\ \E i \in 1..Len(trace) : IsStop(trace[i])

(* C12 amended: with the cleanup option enabled, once clean() has run the  *)
(* removal of the build directory has been started (it settles later, and  *)
(* its failure is only logged) and, after that start, a stop command with  *)
(* timeout 0 has been issued for the configured container name, whatever   *)
(* becomes of the removal.                                                 *)
C12_RemovalStartedThenStop ==
    (last.step = "clean" /\ cfg.cleanup = "true") =>
        /\ rm \in {"pending", "removed", "errorLogged"}
        /\ \E i \in 1..Len(trace) : \E j \in (i + 1)..Len(trace) :
             /\ trace[i] = Ev("remove", "buildDir", 0, 0)
             /\ IsStop(trace[j])
             /\ trace[j].name = cfg.containerName
             /\ trace[j].timeout = 0

C12_Witness ==
    /\ last.step = "clean"
    /\ cfg.cleanup = "true"
    /\ rm = "errorLogged"
    /\ \E i \in 1..Len(trace) : IsStop(trace[i])

----------------------------------------------------------------------------
(* Claims about a command that cannot be launched *)

\* the commands issued so far by the run
Commands(events) == SelectSeq(events, LAMBDA e : e.op = "cmd")

\* C13: a command whose launch reports an error makes runProcess raise at
\* once: nothing is logged, nothing is classified, the operator is not asked,
\* the hook is rejected, and from then on the run issues no command.
C13_SpawnErrorRaisesAtOnce ==
    [][/\ ((last' # last \/ pc' # pc \/ req' # req) /\ last'.ran /\ last'.ret.error) =>
            /\ last'.res.raised
            /\ last'.res.effects = <<"throw">>
            /\ last'.res.logged = <<>>
            /\ last'.res.branch \notin {"falsePositive", "warning", "docker", "other"}
            /\ pc' = "failed"
            /\ failure'.raised
       /\ (last.ran /\ last.ret.error) =>
            /\ Commands(trace') = Commands(trace)
            /\ work' = work
            /\ built' = built
            /\ pc' = pc]_vars

C13_Witness ==
    /\ last.ran /\ last.ret.error
    /\ last.step = "install"
    /\ target < cfg.targets
    /\ req < NumReqs
    /\ pc = "failed"

----------------------------------------------------------------------------
(* Claims about makePackage *)

IsExec(e) == e.op = "cmd" /\ e.arg = "exec"
IsEmptyWarning(e) == e.op = "log" /\ e.arg = "emptyRequirements"

\* C14: installRequirements issues no installer command for a manifest path
\* that does not exist, logs a warning and issues no command for a manifest of
\* length zero, and issues exactly one installer command for a manifest that
\* exists and is not empty.
C14_InstallByManifestState ==
    [][(pc = "install" /\ last'.step = "install") =>
         /\ last'.file = "missing" => work' = work /\ ~last'.ran
         /\ last'.file = "empty" =>
              /\ work' = Append(work, Ev("log", "emptyRequirements", target, req))
              /\ ~last'.ran
         /\ last'.file = "nonempty" =>
              /\ work' = Append(work, Ev("cmd", "exec", target, req))
              /\ last'.ran]_vars

C14_Witness ==
    /\ last.step = "install" /\ last.file = "empty"
    /\ Len(SelectSeq(work, IsExec)) = 1
    /\ Len(SelectSeq(work, IsEmptyWarning)) = 1
    /\ pc = "zip"

\* the step of makePackage an effect belongs to: 1 create the build directory,
\* 2 copy an include, 3 installRequirements for a manifest, 4 compress
Phase(e) ==
    IF e.op = "ensureDirSync" THEN 1
    ELSE IF e.op = "copySync" THEN 2
    ELSE IF e.op = "zip" THEN 4
    ELSE 3

\* C15: makePackage works in the order create build directory, copy the
\* existing includes in list order, installRequirements for the manifests in
\* list order (the target's own first, then the global ones), and compress
\* last: the artifact is written only after every manifest of the target has
\* been dealt with, and is not written when a step of the target raised.
C15_MakePackageOrder ==
    /\ \A i \in 1..Len(work) :
         /\ work[i].tgt = work[1].tgt
         /\ pc \in {"install", "zip"} => work[i].tgt = target
         /\ (i = 1) = (Phase(work[i]) = 1)
         /\ \A j \in (i + 1)..Len(work) :
              /\ Phase(work[i]) <= Phase(work[j])
              /\ Phase(work[i]) = Phase(work[j]) => work[i].k < work[j].k
         /\ Phase(work[i]) = 2 => work[i].k \in 1..NumIncludes
         /\ Phase(work[i]) = 3 => work[i].k \in 1..NumReqs
         /\ Phase(work[i]) = 4 => i = Len(work) /\ pc \in {"makePackage", "done", "cleaned", "failed"}
    /\ pc = "zip" => req = NumReqs /\ last.step = "install"
    /\ pc = "install" => \A i \in 1..Len(work) : Phase(work[i]) = 3 => work[i].k < req
    /\ (failure.raised /\ failure.hook = "package") =>
         /\ \A i \in 1..Len(built) : built[i] # failure.tgt
         /\ failure.step \in {"makePackage", "install", "zip"} =>
              \A i \in 1..Len(work) : Phase(work[i]) # 4
    /\ (pc \in {"install", "zip"}) => \A i \in 1..Len(built) : built[i] # target

C15_Witness ==
    /\ pc = "done"
    /\ cfg.targets = MaxTargets
    /\ Len(built) = cfg.targets
    /\ Len(SelectSeq(work, LAMBDA e : Phase(e) = 2)) = NumIncludes
    /\ Len(SelectSeq(work, IsExec)) = NumReqs
    /\ NumReqs >= 2
    /\ Phase(work[Len(work)]) = 4

----------------------------------------------------------------------------
(* Claims about the run as a whole *)

\* the command of the step just taken was classified Ambiguous and the
\* operator answered Continue
ContinuedStep(l) ==
    /\ l.ran /\ ~l.ret.error
    /\ IsAmbiguous(l.ret)
    /\ HasY(l.response)

\* C16: after an Ambiguous stderr and the answer Continue the step goes on as
\* after a success: runProcess returns the captured stdout and raises nothing,
\* the run is at the next manifest of the target (at its compression after the
\* last one), nothing of the target's work is lost, and a run that ends
\* without an error has built every target.
C16_ContinueResumesStep ==
    [][/\ ((last' # last \/ pc' # pc \/ req' # req) /\ ContinuedStep(last')) =>
            /\ ~last'.res.raised
            /\ last'.res.out = last'.ret.stdout
            /\ failure' = failure
            /\ pc' # "failed"
            /\ last'.step = "install" =>
                 /\ target' = target
                 /\ built' = built
                 /\ work' = Append(work, Ev("cmd", "exec", target, req))
                 /\ IF req < NumReqs
                    THEN pc' = "install" /\ req' = req + 1
                    ELSE pc' = "zip" /\ req' = req
            /\ last'.step = "clean" => pc' = "cleaned"
       /\ pc' = "done" => built' = [i \in 1..cfg.targets |-> i]]_vars

C16_Witness ==
    /\ ContinuedStep(last)
    /\ last.step = "install"
    /\ last.res.out # <<>>
    /\ pc = "install"
    /\ target = 1 /\ cfg.targets >= 2

\* C17: the targets are built one at a time in the order of the target list:
\* the artifacts exist for targets 1..i in that order, the target in work is
\* the one after them, and every effect of the makePackage call in progress
\* belongs to that one target, so the commands of two targets never mix.
C17_TargetsInOrder ==
    /\ \A i \in 1..Len(built) : built[i] = i
    /\ pc \in {"makePackage", "install", "zip"} => target = Len(built) + 1
    /\ pc \in {"install", "zip"} => \A i \in 1..Len(work) : work[i].tgt = target
    /\ \A i \in 1..Len(work) :
         /\ work[i].tgt \in {Len(built), Len(built) + 1}
         /\ work[i].tgt = work[1].tgt
    /\ pc = "done" => Len(built) = cfg.targets

C17_Witness ==
    /\ pc = "install"
    /\ target = 2
    /\ built = <<1>>
    /\ req = 2
    /\ \E i \in 1..Len(work) : IsExec(work[i]) /\ work[i].tgt = 2

\* the place of a setup command in setupDocker
SetupRank(arg) ==
    CASE arg = "version" -> 1
      [] arg = "images" -> 2
      [] arg = "pull" -> 3
      [] arg = "ps" -> 4
      [] arg = "kill" -> 5
      [] arg = "run" -> 6
      [] OTHER -> 7

SetupCommands(events) ==
    SelectSeq(events, LAMBDA e : e.op = "cmd" /\ SetupRank(e.arg) < 7)

Issued(arg) == \E i \in 1..Len(trace) : trace[i].op = "cmd" /\ trace[i].arg = arg

\* C18: the setup of the environment is complete before the first target is
\* built: the version probe, the image query (with the pull, if any) and the
\* container start are issued in that order, and nothing of a target's build,
\* its installer exec in particular, happens before the container start has
\* returned without raising.
C18_SetupBeforeBuild ==
    LET cmds == SetupCommands(trace)
        has(arg) == \E i \in 1..Len(cmds) : cmds[i].arg = arg
    IN  /\ \A i \in 1..(Len(cmds) - 1) :
             SetupRank(cmds[i].arg) < SetupRank(cmds[i + 1].arg)
        /\ cmds # <<>> => cmds[1].arg = "version"
        /\ (has("pull") \/ has("ps")) => has("images")
        /\ has("run") => has("images") /\ has("ps")
        /\ (work # <<>> \/ built # <<>> \/ pc \in {"makePackage", "install", "zip", "done"}) =>
             /\ has("run")
             /\ ~(failure.raised /\ failure.tgt = 0 /\ failure.hook = "package")
        /\ (last.step = "run" /\ last.res.raised) =>
             pc = "failed" /\ work = <<>> /\ target = 0

C18_Witness ==
    /\ Issued("pull") /\ Issued("kill") /\ Issued("run")
    /\ last.step = "install" /\ last.ran
    /\ \E i \in 1..Len(work) : IsExec(work[i])

----------------------------------------------------------------------------
(* Claims about runProcess alone *)

\* C19: for a command that was launched, runProcess logs the captured stderr
\* (without its surrounding whitespace) before it classifies it, whatever the
\* classification: the log entry is the first effect, it is made once, and the
\* question to the operator and the raised error come after it.  A command
\* that wrote nothing to stderr has nothing logged and nothing classified.
C19_StderrLoggedFirst ==
    (call.pc = "done" /\ ~call.ret.error) =>
        LET effects == call.result.effects IN
        /\ Len(call.ret.stderr) # 0 =>
             /\ effects # <<>>
             /\ effects[1] = "log"
             /\ Count(effects, "log") = 1
             /\ call.result.logged = trim(call.ret.stderr)
             /\ call.result.branch \in {"falsePositive", "warning", "docker", "other"}
        /\ Len(call.ret.stderr) = 0 => effects = <<>> /\ call.result.branch = "none"
        /\ \A i \in 1..Len(effects) :
             effects[i] \in {"question", "throw"} => i > 1 /\ effects[1] = "log"

C19_Witness ==
    /\ call.pc = "done"
    /\ ~call.ret.error
    /\ call.result.branch = "docker"
    /\ call.result.raised
    /\ call.result.logged # <<>>
    /\ call.result.logged # call.ret.stderr
    /\ call.result.effects = <<"log", "stdout", "throw">>

\* the same outcome of a command with the other exit status
OtherStatus(ret) == [ret EXCEPT !.status = 1 - @]

\* C20: the exit status of a command is never read: the result of runProcess
\* is the same for either status, and a launched command that wrote nothing
\* to stderr has its stdout returned with no log, no classification, no
\* question and no error, so after an installer that exits non-zero in
\* silence the run goes on to the next manifest or to the compression.
C20_ExitStatusIgnored ==
    [][((last' # last \/ pc' # pc \/ req' # req) /\ last'.ran /\ ~last'.ret.error) =>
         /\ last'.res = runProcess(OtherStatus(last'.ret), last'.response)
         /\ Len(last'.ret.stderr) = 0 =>
              /\ last'.res = Result(FALSE, "none", <<>>, <<>>, last'.ret.stdout)
              /\ failure' = failure
              /\ pc' # "failed"
              /\ last'.step = "install" =>
                   /\ target' = target
                   /\ IF req < NumReqs
                      THEN pc' = "install" /\ req' = req + 1
                      ELSE pc' = "zip" /\ req' = req]_vars

C20_Witness ==
    /\ last.step = "install"
    /\ last.ran /\ ~last.ret.error
    /\ last.ret.status = 1
    /\ last.ret.stderr = <<>>
    /\ pc = "zip"
    /\ ~failure.raised

====
